---- MODULE Spec2Model ----
(***************************************************************************)
(* Model of upload_image.py: the proof-of-work solver                       *)
(* (ImageUploader.find_suffix with its nested is_valid_hash and worker),    *)
(* the per-file pipeline (process_file, get_challenge, upload_image) and    *)
(* the multi-file loop of main.                                             *)
(*                                                                          *)
(* Threads: the main thread and the worker threads of the                   *)
(* ThreadPoolExecutor created by find_suffix.  Every worker uses the        *)
(* module-level generator of `random` (random.seed / random.randint), so   *)
(* the generator state is one variable, rng.                                *)
(*                                                                          *)
(* Hex strings are sequences of characters; a hex digit is the number       *)
(* 0..15 and NonHexChar stands for any character that is not a hex digit.   *)
(***************************************************************************)
EXTENDS Integers, Sequences, FiniteSets, TLC

VARIABLES
    mpc,                 \* position of the main thread
    numPaths,            \* len(args.image_paths)
    idx,                 \* index of the path the for loop of main is at
    successful_uploads,  \* main: successful_uploads
    upload_results,      \* main: upload_results, a list of <<path, url>>
    exitCode,            \* the exit status of the process, NoExit before
    challenge,           \* process_file: the challenge of the current file
    request,             \* the upload POST in flight
    posts,               \* the upload POSTs issued so far, <<path, taskId>>
    gets,                \* the paths a challenge GET was issued for, in order
    solves,              \* the find_suffix calls so far, <<path, taskId>>
    notfound,            \* the paths process_file reported as not a file
    num_workers,         \* find_suffix: num_workers
    submitted,           \* find_suffix: how many futures have been submitted
    finished0,           \* as_completed: futures already finished when called
    doneOrder,           \* workers in the order in which they completed
    winner,              \* the future whose result() find_suffix took
    ret,                 \* what find_suffix returns / raises
    wpc,                 \* worker: position
    wsuff,               \* worker: suff, the candidate as a hex string
    whash,               \* worker: hash_result
    wret,                \* worker: the future's result
    attempts,            \* worker: attempts
    rng,                 \* state of the module-level generator of `random`
    hashA, hashB,        \* inputs of the predicate harness
    dIn,                 \* difficulty given to the predicate harness
    resA, resB,          \* results of the predicate harness
    seedIn,              \* inputs of the seed harness
    seedOut              \* the seeds computed by the seed harness

vars == <<mpc, numPaths, idx, successful_uploads, upload_results, exitCode,
          challenge, request, posts, gets, solves, notfound,
          num_workers, submitted, finished0, doneOrder,
          winner, ret, wpc, wsuff, whash, wret, attempts, rng,
          hashA, hashB, dIn, resA, resB, seedIn, seedOut>>

mainVars == <<mpc, numPaths, idx, successful_uploads, upload_results, exitCode,
              challenge, request, posts, gets, solves, notfound>>
poolVars == <<num_workers, submitted, finished0, doneOrder, winner, ret>>
workerVars == <<wpc, wsuff, whash, wret, attempts, rng>>
fnVars == <<hashA, hashB, dIn, resA, resB, seedIn, seedOut>>

----------------------------------------------------------------------------
(* Bounds *)

MaxPaths == 2        \* at most this many image paths on the command line
MaxCpu == 3          \* os.cpu_count() ranges over 1..MaxCpu
SuffixBytes == 1     \* bytes per candidate (64 in the source)
RngMod == 3          \* number of states of the generator
MaxRandByte == 1     \* random.randint(0, 255) ranges over 0..MaxRandByte
MaxEntropy == 2      \* os.urandom(4) ranges over MaxEntropy values
MaxAttempts == 1     \* the attempt counter is followed up to this value
MaxD == 32           \* difficulties 0..MaxD for the predicate harness

(* Program constants *)

MaxThreads == 32     \* the ceiling in min(32, ...)
DefaultCpu == 5      \* the fallback in (os.cpu_count() or 5)
DigestLen == 32      \* bytes of a SHA-256 digest
NonHexChar == 16

Min(a, b) == IF a <= b THEN a ELSE b

----------------------------------------------------------------------------
(* Pure functions *)

RECURSIVE Pow2(_)
Pow2(k) == IF k = 0 THEN 1 ELSE 2 * Pow2(k - 1)

\* x & y on 8-bit values, bit by bit
RECURSIVE BitAnd8(_, _, _)
BitAnd8(x, y, k) ==
    IF k = 0 THEN 0
    ELSE (IF x % 2 = 1 /\ y % 2 = 1 THEN 1 ELSE 0)
         + 2 * BitAnd8(x \div 2, y \div 2, k - 1)

\* the for loop of is_valid_hash over range(full_bytes), from index i on:
\* "IndexError" when hash_bytes[i] does not exist, "False" at the first
\* nonzero byte, "ok" when the loop ends.
RECURSIVE FullBytesScan(_, _, _)
FullBytesScan(hash_bytes, i, full_bytes) ==
    IF i >= full_bytes THEN "ok"
    ELSE IF i >= Len(hash_bytes) THEN "IndexError"
    ELSE IF hash_bytes[i + 1] # 0 THEN "False"
    ELSE FullBytesScan(hash_bytes, i + 1, full_bytes)

\* is_valid_hash with the byte-scan loop ending one byte early
is_valid_hash_shortscan(hash_bytes, n) ==
    LET full_bytes == n \div 8
        remaining_bits == n % 8
        scan == FullBytesScan(hash_bytes, 0, full_bytes - 1)
        mask == (255 * Pow2(8 - remaining_bits)) % 256
    IN  IF scan # "ok" THEN scan
        ELSE IF remaining_bits > 0
             THEN IF full_bytes >= Len(hash_bytes) THEN "IndexError"
                  ELSE IF BitAnd8(hash_bytes[full_bytes + 1], mask, 8) = 0
                       THEN "True" ELSE "False"
             ELSE "True"

\* is_valid_hash comparing the whole byte instead of its top bits
is_valid_hash_wholebyte(hash_bytes, n) ==
    LET full_bytes == n \div 8
        remaining_bits == n % 8
        scan == FullBytesScan(hash_bytes, 0, full_bytes)
        mask == 255
    IN  IF scan # "ok" THEN scan
        ELSE IF remaining_bits > 0
             THEN IF full_bytes >= Len(hash_bytes) THEN "IndexError"
                  ELSE IF BitAnd8(hash_bytes[full_bytes + 1], mask, 8) = 0
                       THEN "True" ELSE "False"
             ELSE "True"

\* is_valid_hash(hash_bytes, n): "True", "False", or "IndexError" when it
\* indexes past the end of hash_bytes.
is_valid_hash(hash_bytes, n) ==
    LET full_bytes == n \div 8
        remaining_bits == n % 8
        scan == FullBytesScan(hash_bytes, 0, full_bytes)
        mask == (255 * Pow2(8 - remaining_bits)) % 256
    IN  IF scan # "ok" THEN scan
        ELSE IF remaining_bits > 0
             THEN IF full_bytes >= Len(hash_bytes) THEN "IndexError"
                  ELSE IF BitAnd8(hash_bytes[full_bytes + 1], mask, 8) = 0
                       THEN "True" ELSE "False"
             ELSE "True"

\* bytes(...).hex(): two hex digits per byte, high digit first
RECURSIVE Hex(_)
Hex(bs) ==
    IF bs = <<>> THEN <<>>
    ELSE <<Head(bs) \div 16, Head(bs) % 16>> \o Hex(Tail(bs))

RECURSIVE HexPairs(_)
HexPairs(cs) ==
    IF cs = <<>> THEN <<>>
    ELSE <<cs[1] * 16 + cs[2]>> \o HexPairs(Tail(Tail(cs)))

\* bytes.fromhex(cs): ValueError on an odd length or a non-hex character
FromHex(cs) ==
    IF Len(cs) % 2 = 1 \/ \E i \in 1..Len(cs) : cs[i] \notin 0..15
    THEN [err |-> TRUE, val |-> <<>>]
    ELSE [err |-> FALSE, val |-> HexPairs(cs)]

RECURSIVE SumBytes(_)
SumBytes(bs) == IF bs = <<>> THEN 0 ELSE Head(bs) + SumBytes(Tail(bs))

\* a digest with exactly z leading zero bits (bit z set to one) whose last
\* byte is fill; all zero when z = 8 * DigestLen
EngineeredDigest(z, fill) ==
    [i \in 1..DigestLen |->
        IF z < 8 * DigestLen /\ i = (z \div 8) + 1 THEN Pow2(7 - (z % 8))
        ELSE IF i = DigestLen /\ z < 8 * (DigestLen - 1) THEN fill
        ELSE 0]

\* leading zero bits of the digests of the stand-in for SHA-256
DigestClasses == <<8 * DigestLen, 11, 8, 3, 0, 12, 1>>

\* hashlib.sha256(bs).digest(): a fixed function of the input bytes giving
\* DigestLen bytes.  The stand-in classes the input by its byte sum.
Sha256(bs) ==
    LET s == SumBytes(bs) % Len(DigestClasses)
    IN  EngineeredDigest(DigestClasses[s + 1], SumBytes(bs) % 256)

\* worker_id.to_bytes(4, 'little')
ToBytes4Little(x) ==
    <<x % 256, (x \div 256) % 256, (x \div 65536) % 256,
      (x \div 16777216) % 256>>

\* the seed with the worker's index left out
WorkerSeedBytes_noid(e, w) == e

\* os.urandom(4) + worker_id.to_bytes(4, 'little'), e being the entropy
WorkerSeedBytes(e, w) == e \o ToBytes4Little(w)

\* the values os.urandom(4) ranges over
EntropySet == { <<e, 0, 0, 0>> : e \in 0..(MaxEntropy - 1) }

\* random.seed(a): the generator state is a function of the seed bytes
SeedState(a) == SumBytes(a) % RngMod

\* the generator state after the random.randint calls of one candidate
RngNext(r) == (r + SuffixBytes) % RngMod

\* the values one random.randint(0, 255) ranges over
RandBytes == 0..MaxRandByte

\* the values of [random.randint(0, 255) for _ in range(64)]
Candidates == [1..SuffixBytes -> RandBytes]

\* min(32, (os.cpu_count() or 5) - 1); cpu = 0 stands for None
NumWorkers(cpu) ==
    Min(MaxThreads, (IF cpu = 0 THEN DefaultCpu ELSE cpu) - 1)

----------------------------------------------------------------------------
(* Inputs *)

CpuCounts == 1..MaxCpu
Workers == 0..(NumWorkers(MaxCpu) - 1)

\* the pairs of N and pref the challenge source may send: no difficulty
\* and an empty prefix, a difficulty some candidates meet, the digest's 256
\* bits, difficulties above them, and a prefix that is not valid hex
ChallengeInputs ==
    { <<0, <<>>>>, <<11, <<0, 1>>>>, <<8 * DigestLen, <<>>>>, <<260, <<>>>>,
      <<264, <<0, 1>>>>, <<11, <<NonHexChar, 0>>>> }

\* the challenge source issues a fresh taskId with every challenge
TaskIdOf(k) == k + 1

NoChallenge == [N |-> 0, pref |-> <<>>, taskId |-> 0]
NoRet == [kind |-> "none", suff |-> <<>>]
NoRequest == [path |-> 0 - 1, taskId |-> 0, suff |-> <<>>]
NoWinner == 0 - 1
NoExit == 0 - 1

Finished(w) == wpc[w] \in {"done", "raised"}
Running(w) == wpc[w] \in {"seed", "draw", "check"}

----------------------------------------------------------------------------
(* Initial state: main has parsed its arguments and is at the for loop *)

FnIdle ==
    /\ hashA = <<>>
    /\ hashB = <<>>
    /\ dIn = 0
    /\ resA = "none"
    /\ resB = "none"
    /\ seedIn = <<>>
    /\ seedOut = <<>>

MainInit ==
    /\ mpc = "loop"
    /\ idx = 0
    /\ successful_uploads = 0
    /\ upload_results = <<>>
    /\ exitCode = NoExit
    /\ challenge = NoChallenge
    /\ request = NoRequest
    /\ posts = <<>>
    /\ gets = <<>>
    /\ solves = <<>>
    /\ notfound = {}
    /\ num_workers = 0
    /\ submitted = 0
    /\ finished0 = {}
    /\ doneOrder = <<>>
    /\ winner = NoWinner
    /\ ret = NoRet
    /\ wpc = [w \in Workers |-> "idle"]
    /\ wsuff = [w \in Workers |-> <<>>]
    /\ whash = [w \in Workers |-> <<>>]
    /\ wret = [w \in Workers |-> <<>>]
    /\ attempts = [w \in Workers |-> 0]

Init ==
    /\ MainInit
    /\ numPaths \in 1..MaxPaths
    /\ rng \in 0..(RngMod - 1)
    /\ FnIdle

----------------------------------------------------------------------------
(* main and process_file *)

\* process_file is left: its locals and those of find_suffix (the challenge,
\* the suffix, the executor, the futures and their ended threads) are gone
DropLocals ==
    /\ challenge' = NoChallenge
    /\ ret' = NoRet
    /\ num_workers' = 0
    /\ submitted' = 0
    /\ finished0' = {}
    /\ doneOrder' = <<>>
    /\ winner' = NoWinner
    /\ wpc' = [w \in Workers |-> IF Running(w) THEN wpc[w] ELSE "idle"]
    /\ wret' = [w \in Workers |-> <<>>]
    /\ attempts' = [w \in Workers |-> IF Running(w) THEN attempts[w] ELSE 0]
    /\ UNCHANGED <<wsuff, whash>>

\* the body of the for loop of main counting every file, linked or not
RecordUrl_countall(url) ==
    /\ successful_uploads' = successful_uploads + 1
    /\ IF url # ""
       THEN upload_results' = Append(upload_results, <<idx, url>>)
       ELSE UNCHANGED upload_results
    /\ idx' = idx + 1
    /\ mpc' = "loop"
    /\ UNCHANGED exitCode
    /\ DropLocals

\* process_file returned url for the path at idx: the body of the for loop
\* of main after the call
RecordUrl(url) ==
    /\ IF url # ""
       THEN /\ successful_uploads' = successful_uploads + 1
            /\ upload_results' = Append(upload_results, <<idx, url>>)
       ELSE UNCHANGED <<successful_uploads, upload_results>>
    /\ idx' = idx + 1
    /\ mpc' = "loop"
    /\ UNCHANGED exitCode
    /\ DropLocals

\* sys.exit(1): SystemExit is not an Exception, so the except clause of
\* process_file does not catch it and the process ends with status 1
SysExit1 ==
    /\ exitCode' = 1
    /\ mpc' = "exited"
    /\ UNCHANGED <<idx, successful_uploads, upload_results>>
    /\ DropLocals

\* if not os.path.isfile(path) with the check left out
FileNotFound_fetch ==
    /\ notfound' = notfound \cup {idx}
    /\ mpc' = "get_challenge"
    /\ UNCHANGED <<idx, successful_uploads, upload_results, exitCode,
                   challenge, poolVars, wpc, wsuff, whash, wret, attempts>>

\* if not os.path.isfile(path): the error is printed and process_file
\* returns "" before its try block
FileNotFound ==
    /\ notfound' = notfound \cup {idx}
    /\ RecordUrl("")

\* for path in args.image_paths, and the isfile check of process_file
MainNextPath ==
    /\ mpc = "loop"
    /\ idx < numPaths
    /\ \E isfile \in BOOLEAN :
          IF isfile
          THEN /\ mpc' = "get_challenge"
               /\ UNCHANGED <<idx, successful_uploads, upload_results,
                              exitCode, challenge, poolVars, wpc, wsuff,
                              whash, wret, attempts, notfound>>
          ELSE FileNotFound
    /\ UNCHANGED <<numPaths, request, posts, gets, solves, rng, fnVars>>

\* the statistics and links after the loop; main returns
MainReport ==
    /\ mpc = "loop"
    /\ idx = numPaths
    /\ mpc' = "exited"
    /\ exitCode' = 0
    /\ UNCHANGED <<numPaths, idx, successful_uploads, upload_results,
                   challenge, request, posts, gets, solves, notfound>>
    /\ UNCHANGED <<poolVars, workerVars, fnVars>>

\* get_challenge and the reads of challenge["N"] and challenge['ip'] in
\* process_file: a response without these keys raises KeyError, which the
\* except clause of process_file catches
get_challenge ==
    /\ mpc = "get_challenge"
    /\ gets' = Append(gets, idx)
    /\ \E status \in {200, 500}, success \in BOOLEAN, haskeys \in BOOLEAN :
          IF status # 200 \/ ~success
          THEN SysExit1
          ELSE IF ~haskeys
          THEN RecordUrl("")
          ELSE /\ \E c \in ChallengeInputs :
                     challenge' = [N |-> c[1], pref |-> c[2],
                                   taskId |-> TaskIdOf(idx)]
               /\ mpc' = "fs_start"
               /\ UNCHANGED <<idx, successful_uploads, upload_results,
                              exitCode, poolVars, wpc, wsuff, whash, wret,
                              attempts>>
    /\ UNCHANGED <<numPaths, request, posts, solves, notfound, rng, fnVars>>

\* upload_image up to requests.post: the file is opened and the request is
\* sent with taskId and suff; an error of open is caught by process_file
\* upload_image called with the taskId of the first challenge of the run
UploadArgs_stale == [taskId |-> TaskIdOf(0), suff |-> ret.suff]

\* the arguments of self.upload_image(path, challenge["taskId"], suff)
UploadArgs == [taskId |-> challenge.taskId, suff |-> ret.suff]

upload_image_post ==
    /\ mpc = "upload"
    /\ \E opened \in BOOLEAN :
          IF opened
          THEN /\ request' = [path |-> idx, taskId |-> UploadArgs.taskId,
                              suff |-> UploadArgs.suff]
               /\ posts' = Append(posts, <<idx, UploadArgs.taskId>>)
               /\ mpc' = "upload_wait"
               /\ UNCHANGED <<idx, successful_uploads, upload_results,
                              exitCode, challenge, poolVars, wpc, wsuff,
                              whash, wret, attempts>>
          ELSE /\ RecordUrl("")
               /\ UNCHANGED <<request, posts>>
    /\ UNCHANGED <<numPaths, gets, solves, notfound, rng, fnVars>>

\* upload_image from the response on: raise_for_status, the success flag,
\* the url; process_file returns the url, or "" from its except clause
upload_image_response ==
    /\ mpc = "upload_wait"
    /\ \E outcome \in {"http_error", "not_success", "ok"}, url \in {"", "u"} :
          CASE outcome = "not_success" -> SysExit1
            [] outcome = "ok" -> RecordUrl(url)
            [] OTHER -> RecordUrl("")
    /\ request' = NoRequest
    /\ UNCHANGED <<numPaths, posts, gets, solves, notfound, rng, fnVars>>

----------------------------------------------------------------------------
(* find_suffix: the main thread *)

\* with ThreadPoolExecutor() as executor: num_workers = ...
FsStart ==
    /\ mpc = "fs_start"
    /\ \E cpu \in CpuCounts : num_workers' = NumWorkers(cpu)
    /\ mpc' = "fs_submit"
    /\ solves' = Append(solves, <<idx, challenge.taskId>>)
    /\ UNCHANGED <<numPaths, idx, successful_uploads, upload_results,
                   exitCode, challenge, request, posts, gets, notfound>>
    /\ UNCHANGED <<submitted, finished0, doneOrder, winner, ret>>
    /\ UNCHANGED <<workerVars, fnVars>>

\* executor.submit(worker, i): the worker's thread starts
FsSubmit ==
    /\ mpc = "fs_submit"
    /\ submitted < num_workers
    /\ wpc' = [wpc EXCEPT ![submitted] = "seed"]
    /\ submitted' = submitted + 1
    /\ UNCHANGED <<mainVars, num_workers, finished0, doneOrder, winner, ret,
                   wsuff, whash, wret, attempts, rng, fnVars>>

\* as_completed(futures) is called: it notes the futures already finished
FsAsCompleted ==
    /\ mpc = "fs_submit"
    /\ submitted = num_workers
    /\ finished0' = {w \in Workers : Finished(w)}
    /\ mpc' = "fs_wait"
    /\ UNCHANGED <<numPaths, idx, successful_uploads, upload_results,
                   exitCode, challenge, request, posts, gets, solves,
                   notfound>>
    /\ UNCHANGED <<num_workers, submitted, doneOrder, winner, ret>>
    /\ UNCHANGED <<workerVars, fnVars>>

\* as_completed yielding the newest finished future first
FirstYield_newest ==
    IF doneOrder # <<>> THEN {doneOrder[Len(doneOrder)]} ELSE {}

\* the futures as_completed may yield first: any of those finished when it
\* was called, otherwise the first to finish afterwards
FirstYield ==
    IF finished0 # {} THEN finished0
    ELSE IF doneOrder # <<>> THEN {Head(doneOrder)}
    ELSE {}

\* the first iteration of the for loop over as_completed: future.result()
\* gives (True, suff) and find_suffix executes return suff, or re-raises the
\* worker's exception; with no futures the loop body never runs and
\* find_suffix executes return "".
FsTakeFirst ==
    /\ mpc = "fs_wait"
    /\ IF num_workers = 0
       THEN /\ ret' = [kind |-> "value", suff |-> <<>>]
            /\ UNCHANGED winner
       ELSE \E f \in FirstYield :
               /\ winner' = f
               /\ ret' = IF wpc[f] = "raised"
                         THEN [kind |-> "raise", suff |-> <<>>]
                         ELSE [kind |-> "value", suff |-> wret[f]]
    /\ mpc' = "fs_exit"
    /\ UNCHANGED <<numPaths, idx, successful_uploads, upload_results,
                   exitCode, challenge, request, posts, gets, solves,
                   notfound>>
    /\ UNCHANGED <<num_workers, submitted, finished0, doneOrder>>
    /\ UNCHANGED <<workerVars, fnVars>>

\* executor.shutdown(wait=True) without the join
AllWorkersJoined_nowait == TRUE

\* executor.shutdown(wait=True) in __exit__: t.join() for every thread
AllWorkersJoined == \A w \in Workers : ~Running(w)

\* the with block is left: the executor joins its threads, then find_suffix
\* returns to process_file, or its exception reaches the except clause
FsExit ==
    /\ mpc = "fs_exit"
    /\ AllWorkersJoined
    /\ IF ret.kind = "raise"
       THEN RecordUrl("")
       ELSE /\ mpc' = "upload"
            /\ UNCHANGED <<idx, successful_uploads, upload_results,
                           exitCode, challenge, poolVars, wpc, wsuff, whash,
                           wret, attempts>>
    /\ UNCHANGED <<numPaths, request, posts, gets, solves, notfound, rng,
                   fnVars>>

----------------------------------------------------------------------------
(* find_suffix: worker(worker_id) *)

\* random.seed(os.urandom(4) + worker_id.to_bytes(4, 'little')); attempts = 0
WorkerSeed(w) ==
    /\ wpc[w] = "seed"
    /\ \E e \in EntropySet : rng' = SeedState(WorkerSeedBytes(e, w))
    /\ wpc' = [wpc EXCEPT ![w] = "draw"]
    /\ attempts' = [attempts EXCEPT ![w] = 0]
    /\ UNCHANGED <<mainVars, poolVars, wsuff, whash, wret, fnVars>>

\* the top of the while loop: the random suffix, combined, hash_result.
\* bytes.fromhex raises ValueError when pref + suff is not valid hex.
WorkerDraw(w) ==
    /\ wpc[w] = "draw"
    /\ rng' = RngNext(rng)
    /\ \E c \in Candidates :
        LET suff == Hex(c)
            combined == FromHex(challenge.pref \o suff)
        IN  /\ wsuff' = [wsuff EXCEPT ![w] = suff]
            /\ IF combined.err
               THEN /\ wpc' = [wpc EXCEPT ![w] = "raised"]
                    /\ doneOrder' = Append(doneOrder, w)
                    /\ UNCHANGED whash
               ELSE /\ wpc' = [wpc EXCEPT ![w] = "check"]
                    /\ whash' = [whash EXCEPT ![w] = Sha256(combined.val)]
                    /\ UNCHANGED doneOrder
    /\ UNCHANGED <<mainVars, num_workers, submitted, finished0, winner, ret,
                   wret, attempts, fnVars>>

\* if is_valid_hash(hash_result, n): return True, suff; otherwise
\* attempts += 1 and the loop goes round.  An IndexError of is_valid_hash
\* ends the worker.
WorkerCheck(w) ==
    /\ wpc[w] = "check"
    /\ LET valid == is_valid_hash(whash[w], challenge.N)
       IN  CASE valid = "True" ->
                  /\ wpc' = [wpc EXCEPT ![w] = "done"]
                  /\ wret' = [wret EXCEPT ![w] = wsuff[w]]
                  /\ doneOrder' = Append(doneOrder, w)
                  /\ UNCHANGED attempts
             [] valid = "False" ->
                  /\ wpc' = [wpc EXCEPT ![w] = "draw"]
                  /\ attempts' = [attempts EXCEPT ![w] =
                                    Min(attempts[w] + 1, MaxAttempts)]
                  /\ UNCHANGED <<wret, doneOrder>>
             [] OTHER ->
                  /\ wpc' = [wpc EXCEPT ![w] = "raised"]
                  /\ doneOrder' = Append(doneOrder, w)
                  /\ UNCHANGED <<wret, attempts>>
    /\ UNCHANGED <<mainVars, num_workers, submitted, finished0, winner, ret,
                   wsuff, whash, rng, fnVars>>

WorkerStep(w) == WorkerSeed(w) \/ WorkerDraw(w) \/ WorkerCheck(w)

MainStep ==
    \/ MainNextPath
    \/ MainReport
    \/ get_challenge
    \/ upload_image_post
    \/ upload_image_response
    \/ FsStart
    \/ FsSubmit
    \/ FsAsCompleted
    \/ FsTakeFirst
    \/ FsExit

Next ==
    \/ MainStep
    \/ \E w \in Workers : WorkerStep(w)

Spec == Init /\ [][Next]_vars

\* one image path on the command line
InitOnePath ==
    /\ MainInit
    /\ numPaths = 1
    /\ rng \in 0..(RngMod - 1)
    /\ FnIdle

\* a run over one path in which every thread that can take a step
\* eventually takes one
FairSpec ==
    /\ InitOnePath
    /\ [][Next]_vars
    /\ WF_vars(MainStep)
    /\ \A w \in Workers : WF_vars(WorkerStep(w))

\* worker w draws a candidate whose digest satisfies the predicate
DrawsSolution(w) ==
    /\ WorkerDraw(w)
    /\ wpc'[w] = "check"
    /\ is_valid_hash(whash'[w], challenge.N) = "True"

\* a fair run in which, moreover, a worker that keeps drawing candidates
\* eventually draws one that satisfies the predicate
FairDrawSpec ==
    /\ InitOnePath
    /\ [][Next]_vars
    /\ WF_vars(MainStep)
    /\ \A w \in Workers : WF_vars(WorkerStep(w))
    /\ \A w \in Workers : SF_vars(DrawsSolution(w))

TypeOK ==
    /\ mpc \in {"loop", "get_challenge", "fs_start", "fs_submit", "fs_wait",
                "fs_exit", "upload", "upload_wait", "exited"}
    /\ idx \in 0..numPaths
    /\ successful_uploads \in 0..numPaths
    /\ num_workers \in 0..MaxThreads
    /\ rng \in 0..(RngMod - 1)
    /\ \A w \in Workers : attempts[w] \in 0..MaxAttempts

----------------------------------------------------------------------------
(* The predicate harness: is_valid_hash applied to two digests that differ  *)
(* in one byte, for every difficulty 0..MaxD                                *)

\* the digests tried with difficulty d: exactly k leading zero bits for k
\* next to d and at 0, 8 and 11, and the all-zero digest
HarnessDigests(d) ==
    { EngineeredDigest(k, 255) :
        k \in {d - 1, d, d + 1, 0, 8, 11} \cap (0..(MaxD + 1)) }
        \cup { EngineeredDigest(8 * DigestLen, 0) }

\* <<index, value>>: byte 1 takes every value, bytes 0, 2, 3, 4 a few
Tweaks ==
    ({2} \X (0..255)) \cup ({1, 3, 4, 5} \X {0, 1, 31, 32, 128, 255})

InitFn ==
    /\ MainInit
    /\ numPaths = 1
    /\ rng = 0
    /\ dIn \in 0..MaxD
    /\ hashA \in HarnessDigests(dIn)
    /\ \E t \in Tweaks : hashB = [hashA EXCEPT ![t[1]] = t[2]]
    /\ resA = "none"
    /\ resB = "none"
    /\ seedIn = <<>>
    /\ seedOut = <<>>

CheckA ==
    /\ resA = "none"
    /\ resA' = is_valid_hash(hashA, dIn)
    /\ UNCHANGED <<mainVars, poolVars, workerVars, hashA, hashB, dIn, resB,
                   seedIn, seedOut>>

CheckB ==
    /\ resB = "none"
    /\ resB' = is_valid_hash(hashB, dIn)
    /\ UNCHANGED <<mainVars, poolVars, workerVars, hashA, hashB, dIn, resA,
                   seedIn, seedOut>>

NextFn == CheckA \/ CheckB

SpecFn == InitFn /\ [][NextFn]_vars

----------------------------------------------------------------------------
(* The seed harness: the seeds of two workers of one solve, for every pair  *)
(* of worker indices and of entropy values                                  *)

\* the worker indices range(num_workers) can give
WorkerIds == 0..(MaxThreads - 1)

InitSeed ==
    /\ MainInit
    /\ numPaths = 1
    /\ rng = 0
    /\ hashA = <<>>
    /\ hashB = <<>>
    /\ dIn = 0
    /\ resA = "none"
    /\ resB = "none"
    /\ \E w \in WorkerIds, v \in WorkerIds, e \in EntropySet, f \in EntropySet :
          seedIn = <<w, e, v, f>>
    /\ seedOut = <<>>

\* each of the two workers builds its seed
SeedPair ==
    /\ seedOut = <<>>
    /\ seedOut' = <<WorkerSeedBytes(seedIn[2], seedIn[1]),
                    WorkerSeedBytes(seedIn[4], seedIn[3])>>
    /\ UNCHANGED <<mainVars, poolVars, workerVars, hashA, hashB, dIn, resA,
                   resB, seedIn>>

NextSeed == SeedPair

SpecSeed == InitSeed /\ [][NextSeed]_vars

----------------------------------------------------------------------------
(* Vocabulary of the properties *)

\* bit k of a digest, bit 0 being the most significant bit of byte 0
Bit(h, k) == (h[(k \div 8) + 1] \div Pow2(7 - (k % 8))) % 2

\* leading zeros of one nonzero byte
LeadingZeros8(b) == CHOOSE z \in 0..7 : b \div Pow2(7 - z) = 1

\* number of leading zero bits of a digest
LeadingZeroBits(h) ==
    LET nz == {i \in 1..Len(h) : h[i] # 0}
    IN  IF nz = {} THEN 8 * Len(h)
        ELSE LET first == CHOOSE i \in nz : \A j \in nz : i <= j
             IN  8 * (first - 1) + LeadingZeros8(h[first])

AgreeOnFirstBits(h, g, d) == \A k \in 0..(d - 1) : Bit(h, k) = Bit(g, k)

\* suff is the hex encoding of SuffixBytes bytes and the digest of
\* pref ++ suff has its first n bits zero
IsSolution(pref, n, suff) ==
    /\ Len(suff) = 2 * SuffixBytes
    /\ \A i \in 1..Len(suff) : suff[i] \in 0..15
    /\ LET combined == FromHex(pref \o suff)
       IN  /\ ~combined.err
           /\ n <= 8 * DigestLen
           /\ LeadingZeroBits(Sha256(combined.val)) >= n

\* the solve is in progress: between the creation of the pool and the
\* return of find_suffix
Searching == mpc \in {"fs_submit", "fs_wait", "fs_exit"}

Found == {w \in Workers : wpc[w] = "done"}

\* the generator worker w seeds and draws from: random.seed and
\* random.randint act on the module-level instance
GeneratorOf(w) == rng

\* position of worker w in the order of completion
PosDone(w) == CHOOSE i \in 1..Len(doneOrder) : doneOrder[i] = w

PostsOf(path) == {i \in DOMAIN posts : posts[i][1] = path}

Paths == 0..(numPaths - 1)

\* the paths main has recorded a link for
Linked == {upload_results[i][1] : i \in DOMAIN upload_results}

\* the challenge can be met: its prefix is valid hex and its difficulty is
\* within the digest's bit length
Satisfiable ==
    /\ challenge.N <= 8 * DigestLen
    /\ ~FromHex(challenge.pref).err

----------------------------------------------------------------------------
(* Properties *)

\* C1: whenever find_suffix returns a value to process_file, the value is
\* the hex encoding of a suffix of the fixed length whose digest with the
\* prefix has its first N bits zero.
C1_ReturnIsSolution ==
    mpc = "upload" => IsSolution(challenge.pref, challenge.N, ret.suff)

\* C2: once find_suffix has taken the first result, its return is possible
\* whatever the other workers are doing.
C2_ReturnsAtFirstSolution ==
    (mpc = "fs_exit" /\ ret.kind = "value" /\ num_workers > 0)
        => ENABLED FsExit

\* C3: once a solution has been taken, every worker eventually leaves its
\* search loop, also one whose candidates never satisfy the predicate.
C3_OthersStop ==
    \A w \in Workers :
        (mpc = "fs_exit" /\ ret.kind = "value" /\ winner # NoWinner)
            ~> ~Running(w)

\* C4 as stated: with two or more workers having found a suffix, the suffix
\* handed on is the one of the first worker to complete, and only it
\* reaches the upload.
C4_FirstCompletedWins ==
    (mpc \in {"fs_exit", "upload", "upload_wait"} /\ ret.kind = "value"
        /\ Cardinality(Found) >= 2)
    => /\ ret.suff = wret[Head(doneOrder)]
       /\ Cardinality(PostsOf(idx)) <= 1
       /\ mpc = "upload_wait" => request.suff = wret[Head(doneOrder)]

\* C4 amended: with two or more workers having found a suffix, exactly one
\* suffix is handed on, that of a worker that completed before every worker
\* still unfinished when find_suffix began to wait; the upload carries that
\* suffix and no other, once.
C4_OneSolutionAccepted ==
    (mpc \in {"fs_exit", "upload", "upload_wait"} /\ ret.kind = "value"
        /\ Cardinality(Found) >= 2)
    => /\ winner \in Found
       /\ ret.suff = wret[winner]
       /\ \A w \in Found \ (finished0 \cup {winner}) :
             PosDone(winner) < PosDone(w)
       /\ Cardinality(PostsOf(idx)) <= 1
       /\ mpc = "upload_wait" =>
             /\ Cardinality(PostsOf(idx)) = 1
             /\ request.path = idx
             /\ request.suff = wret[winner]

C4_Witness ==
    /\ mpc = "upload_wait"
    /\ Cardinality(Found) >= 2
    /\ \E w \in Found : wret[w] # wret[winner]
    /\ request.suff = wret[winner]

\* C5: a solve whose difficulty exceeds the digest's bit length does not
\* stay in the search for ever.
C5_UnsatisfiableEnds ==
    (Searching /\ challenge.N > 8 * DigestLen) ~> ~Searching

\* C6: for d in 0..MaxD the predicate is true of a digest with exactly d
\* leading zero bits and, for d >= 1, false of a digest with exactly d - 1.
C6_PredicateCorrect ==
    \A p \in {<<hashA, resA>>, <<hashB, resB>>} :
        p[2] # "none" =>
            /\ LeadingZeroBits(p[1]) = dIn => p[2] = "True"
            /\ (dIn >= 1 /\ LeadingZeroBits(p[1]) = dIn - 1) => p[2] = "False"

C6_Witness ==
    /\ dIn = 32
    /\ LeadingZeroBits(hashA) = 32
    /\ resA = "True"
    /\ LeadingZeroBits(hashB) = 31
    /\ resB = "False"

\* C7: the predicate depends only on the first d bits: two digests that
\* agree on them get the same result; for d = 8 the result is whether byte
\* 0 is zero; for d = 11 whether byte 0 and the top 3 bits of byte 1 are.
C7_DependsOnFirstBits ==
    (resA # "none" /\ resB # "none") =>
        /\ AgreeOnFirstBits(hashA, hashB, dIn) => resA = resB
        /\ dIn = 8 =>
              \A p \in {<<hashA, resA>>, <<hashB, resB>>} :
                  (p[2] = "True") <=> (p[1][1] = 0)
        /\ dIn = 11 =>
              \A p \in {<<hashA, resA>>, <<hashB, resB>>} :
                  (p[2] = "True") <=> (p[1][1] = 0 /\ p[1][2] \div 32 = 0)

C7_Witness ==
    /\ dIn = 11
    /\ resA = "True"
    /\ resB = "True"
    /\ hashB[2] = 31
    /\ hashA[2] # hashB[2]

\* C8: the number of workers of a solve is at least 1 and at most 32.
C8_WorkerCountInRange ==
    Searching => (1 <= num_workers /\ num_workers <= MaxThreads)

\* C9: a step of one worker leaves the generator state and the attempt
\* counter of every other running worker unchanged.
C9_WorkersShareNothing ==
    [][\A w \in Workers :
          WorkerStep(w) =>
              \A v \in Workers \ {w} :
                  Running(v) =>
                      /\ GeneratorOf(v)' = GeneratorOf(v)
                      /\ attempts'[v] = attempts[v]]_vars

\* C10: when find_suffix has returned, and so whenever the loop of main
\* moves on, no worker is running.
C10_NoWorkerLeaked ==
    ~Searching => \A w \in Workers : ~Running(w)

C10_Witness ==
    /\ mpc = "loop"
    /\ idx >= 1
    /\ idx < numPaths
    /\ PostsOf(idx - 1) # {}
    /\ \A w \in Workers : ~Running(w)

\* C11: from the start of a solve whose challenge can be met, the run
\* reaches the return of find_suffix with a suffix that is a solution of
\* that challenge.
C11_SolveReturnsSolution ==
    (mpc = "fs_submit" /\ Satisfiable)
        ~> (mpc = "upload"
            /\ IsSolution(challenge.pref, challenge.N, ret.suff))

\* C12: in a solve with the empty prefix and difficulty 0 no worker has a
\* failed attempt or raises, every finished worker holds a suffix, and what
\* find_suffix returns is a solution.
C12_TrivialChallengeSolved ==
    (mpc \in {"fs_submit", "fs_wait", "fs_exit", "upload"}
        /\ challenge.N = 0 /\ challenge.pref = <<>>)
    => /\ \A w \in Workers :
             /\ attempts[w] = 0
             /\ wpc[w] # "raised"
             /\ Finished(w) => IsSolution(<<>>, 0, wret[w])
       /\ mpc = "upload" => IsSolution(<<>>, 0, ret.suff)

\* C13: the process ends only after the loop of main has gone through
\* every path.
C13_EveryPathProcessed ==
    mpc = "exited" => idx = numPaths

\* C14: the exit status of the process is never nonzero.
C14_ExitStatusZero ==
    exitCode \in {NoExit, 0}

\* C15: a path reported as not a file has no challenge GET, no solve, no
\* upload POST and no link, and process_file has returned for it.
C15_NotFoundNoNetwork ==
    \A p \in notfound :
        /\ p < idx
        /\ \A i \in DOMAIN gets : gets[i] # p
        /\ \A i \in DOMAIN solves : solves[i][1] # p
        /\ PostsOf(p) = {}
        /\ p \notin Linked

C15_Witness ==
    /\ notfound = {0}
    /\ idx = 1
    /\ mpc = "upload_wait"
    /\ gets = <<1>>
    /\ PostsOf(1) # {}

\* C16: the success count equals the number of links and the number of
\* paths with a link, and is at most the number of paths; a path has a link
\* only if it was a file whose challenge was fetched and whose upload was
\* posted once and answered with a URL; the file at which the process
\* exits with status 1 has none.
C16_CountMatchesUrls ==
    /\ successful_uploads = Len(upload_results)
    /\ successful_uploads = Cardinality(Linked)
    /\ successful_uploads <= numPaths
    /\ \A i \in DOMAIN upload_results :
          LET path == upload_results[i][1]
          IN  /\ upload_results[i][2] # ""
              /\ path < idx
              /\ path \notin notfound
              /\ \E j \in DOMAIN gets : gets[j] = path
              /\ Cardinality(PostsOf(path)) = 1
    /\ exitCode = 1 => idx \notin Linked

C16_Witness ==
    /\ mpc = "exited"
    /\ exitCode = 0
    /\ numPaths = 2
    /\ Len(posts) = 2
    /\ successful_uploads = 1
    /\ Linked = {1}

\* C17: every upload POST follows a solve of the same path with the same
\* taskId, a path has at most one challenge GET, one solve and one POST, no
\* taskId is solved twice, no POST exists while the file's challenge is
\* fetched or solved, and the request in flight carries the taskId of the
\* current challenge and the suffix find_suffix returned in this solve.
C17_PipelineOrder ==
    /\ \A i \in DOMAIN posts : \E j \in DOMAIN solves : solves[j] = posts[i]
    /\ \A i \in DOMAIN solves : \E j \in DOMAIN gets : gets[j] = solves[i][1]
    /\ \A i, j \in DOMAIN solves :
          (solves[i][1] = solves[j][1] \/ solves[i][2] = solves[j][2]) => i = j
    /\ \A i, j \in DOMAIN gets : gets[i] = gets[j] => i = j
    /\ \A i, j \in DOMAIN posts : posts[i][1] = posts[j][1] => i = j
    /\ mpc \in {"get_challenge", "fs_start", "fs_submit", "fs_wait",
                 "fs_exit", "upload"} => PostsOf(idx) = {}
    /\ mpc \in {"get_challenge", "fs_start"} =>
          \A i \in DOMAIN solves : solves[i][1] # idx
    /\ mpc = "upload_wait" =>
          /\ request.path = idx
          /\ request.taskId = challenge.taskId
          /\ solves[Len(solves)] = <<idx, challenge.taskId>>
          /\ posts[Len(posts)] = <<idx, challenge.taskId>>
          /\ ret.kind = "value"
          /\ request.suff = ret.suff
          /\ num_workers > 0 =>
                /\ winner \in Workers
                /\ \E k \in DOMAIN doneOrder : doneOrder[k] = winner
                /\ request.suff = wret[winner]
          /\ \A w \in Workers : ~Running(w)

C17_Witness ==
    /\ mpc = "upload_wait"
    /\ idx = 1
    /\ num_workers > 0
    /\ posts = <<<<0, TaskIdOf(0)>>, <<1, TaskIdOf(1)>>>>
    /\ request.taskId = TaskIdOf(1)

\* C18: the seeds of two workers with distinct indices differ, whatever
\* entropy each of them drew.
C18_SeedsDiffer ==
    (seedOut # <<>> /\ seedIn[1] # seedIn[3]) => seedOut[1] # seedOut[2]

C18_Witness ==
    /\ seedOut # <<>>
    /\ seedIn[1] = 1
    /\ seedIn[3] = 0
    /\ seedIn[2] = seedIn[4]
    /\ seedOut[1] # seedOut[2]

\* C19: once a worker has raised in the solve of a path, the run reaches
\* the loop of main at the next path, with no upload POST and no link for
\* the path.
C19_WorkerErrorSkipsFile ==
    \A p \in 0..(MaxPaths - 1) :
        (Searching /\ idx = p /\ \E w \in Workers : wpc[w] = "raised")
            ~> (mpc = "loop" /\ idx = p + 1 /\ PostsOf(p) = {}
                /\ p \notin Linked)

====
